---- MODULE Spec2Model ----
(***************************************************************************)
(* rust-tree: directory traversal (materialized and streaming), filtering  *)
(* and sorting, modelled over a finite filesystem snapshot.                *)
(*                                                                         *)
(* Strings are sequences of one-character strings (<<".", "h">> is ".h"),  *)
(* compared bytewise as Rust's String/OsStr Ord does.  A path is the       *)
(* sequence of its components; its text is the components joined by "/".   *)
(***************************************************************************)
EXTENDS Integers, Sequences, FiniteSets, TLC

(***************************************************************************)
(* Bounds of the model.                                                    *)
(***************************************************************************)
\* number of entries below the root in a snapshot
MaxEntries == 2
\* file sizes range over 0..MaxSize
MaxSize == 1
\* the configured max_depth ranges over 0..MaxDepthLimit (0 = unlimited)
MaxDepthLimit == 1
\* the paths given to should_exclude directly have at most MaxPathLen components
MaxPathLen == 2
\* the system resolves a path through at most MaxLinkHops symbolic links
MaxLinkHops == 2

(***************************************************************************)
(* Strings.                                                                *)
(***************************************************************************)
\* byte value of a character (ASCII)
Ord(c) ==
  CASE c = "*" -> 42
    [] c = "." -> 46
    [] c = "/" -> 47
    [] c = "?" -> 63
    [] c = "a" -> 97
    [] c = "b" -> 98
    [] c = "r" -> 114
    [] c = "x" -> 120
    [] c = "y" -> 121

\* Ordering results of std::cmp::Ordering
Less == "Less"
Equal == "Equal"
Greater == "Greater"

RECURSIVE StrCmp(_, _)
\* <str as Ord>::cmp: bytewise lexicographic, a proper prefix is Less
StrCmp(a, b) ==
  IF a = <<>> /\ b = <<>> THEN Equal
  ELSE IF a = <<>> THEN Less
  ELSE IF b = <<>> THEN Greater
  ELSE IF Ord(Head(a)) < Ord(Head(b)) THEN Less
  ELSE IF Ord(Head(a)) > Ord(Head(b)) THEN Greater
  ELSE StrCmp(Tail(a), Tail(b))

\* Ordering::then_with
ThenWith(first, second) == IF first = Equal THEN second ELSE first

\* u64 cmp
NumCmp(a, b) == IF a < b THEN Less ELSE IF a > b THEN Greater ELSE Equal

\* str::starts_with('.')
StartsWithDot(s) == s /= <<>> /\ Head(s) = "."

\* str::contains('.')
ContainsDot(s) == \E i \in 1..Len(s) : s[i] = "."

\* index of the last '.' of s, 0 when there is none
LastDot(s) ==
  IF ContainsDot(s)
  THEN CHOOSE i \in 1..Len(s) : s[i] = "." /\ \A j \in (i+1)..Len(s) : s[j] /= "."
  ELSE 0

\* the text after the last '.', the whole string when there is none:
\* name.rsplit('.').next()
RSplitDotFirst(s) == SubSeq(s, LastDot(s) + 1, Len(s))

(***************************************************************************)
(* Option<T> is a sequence of at most one element.                         *)
(***************************************************************************)
None == <<>>
Some(x) == <<x>>
IsSome(o) == o /= <<>>
Unwrap(o) == o[1]

(***************************************************************************)
(* Paths.                                                                  *)
(***************************************************************************)
DotDot == <<".", ".">>

\* Path::file_name: the last component, None for the empty path and for a
\* path that ends in ".."
FileName(path) ==
  IF path = <<>> \/ path[Len(path)] = DotDot THEN None
  ELSE Some(path[Len(path)])

RECURSIVE PathText(_)
\* the text of a path: its components joined by '/'
PathText(path) ==
  IF path = <<>> THEN <<>>
  ELSE IF Len(path) = 1 THEN path[1]
  ELSE PathText(SubSeq(path, 1, Len(path) - 1)) \o <<"/">> \o path[Len(path)]

\* Path::extension: the text after the last '.' of the file name; None when
\* there is no file name, no '.', or the only '.' is the first character
PathExtension(path) ==
  LET file_name == FileName(path) IN
  IF ~IsSome(file_name) THEN None
  ELSE IF LastDot(Unwrap(file_name)) <= 1 THEN None
  ELSE Some(RSplitDotFirst(Unwrap(file_name)))

(***************************************************************************)
(* glob::Pattern with the default MatchOptions: '?' matches any one        *)
(* character and '*' any run of characters, '/' and a leading '.' included *)
(***************************************************************************)
RECURSIVE Matches(_, _)
\* Pattern::matches
Matches(pattern, str) ==
  IF pattern = <<>> THEN str = <<>>
  ELSE IF Head(pattern) = "*"
    THEN \E k \in 0..Len(str) : Matches(Tail(pattern), SubSeq(str, k + 1, Len(str)))
  ELSE IF str = <<>> THEN FALSE
  ELSE IF Head(pattern) = "?" THEN Matches(Tail(pattern), Tail(str))
  ELSE Head(pattern) = Head(str) /\ Matches(Tail(pattern), Tail(str))

\* Pattern::matches_path: matches the text of the whole path
MatchesPath(pattern, path) == Matches(pattern, PathText(path))

(***************************************************************************)
(* core/filter.rs                                                          *)
(***************************************************************************)
\* FilterConfig::default()
FilterConfigDefault ==
  [exclude_patterns |-> <<>>, include_pattern |-> None, exclude_hidden |-> FALSE]

\* glob::Pattern::new: None (Err) for a '[' that no ']' closes at least two
\* characters later; patterns are written with '*', '?', '[' and literals
PatternNew(text) ==
  IF \E i \in 1..Len(text) :
       text[i] = "[" /\ ~\E j \in (i + 2)..Len(text) : text[j] = "]"
  THEN None
  ELSE Some(text)

\* FilterConfig::add_exclude: the Result and the filter afterwards
add_exclude(filter, text) ==
  LET p == PatternNew(text) IN
  IF IsSome(p)
  THEN [ok |-> TRUE,
        filter |-> [filter EXCEPT !.exclude_patterns = Append(@, Unwrap(p))]]
  ELSE [ok |-> FALSE, filter |-> filter]

\* FilterConfig::set_include: the Result and the filter afterwards
set_include(filter, text) ==
  LET p == PatternNew(text) IN
  IF IsSome(p)
  THEN [ok |-> TRUE, filter |-> [filter EXCEPT !.include_pattern = p]]
  ELSE [ok |-> FALSE, filter |-> filter]

\* FilterConfig::should_exclude
should_exclude(filter, path) ==
  LET file_name == FileName(path)
      hidden == /\ filter.exclude_hidden
                /\ IsSome(file_name)
                /\ StartsWithDot(Unwrap(file_name))
      excluded == \E i \in 1..Len(filter.exclude_patterns) :
                    \/ MatchesPath(filter.exclude_patterns[i], path)
                    \/ /\ IsSome(file_name)
                       /\ Matches(filter.exclude_patterns[i], Unwrap(file_name))
      not_included == /\ IsSome(filter.include_pattern)
                      /\ ~MatchesPath(Unwrap(filter.include_pattern), path)
                      /\ IsSome(file_name)
                      /\ ~Matches(Unwrap(filter.include_pattern), Unwrap(file_name))
  IN hidden \/ excluded \/ not_included

(***************************************************************************)
(* The filesystem snapshot.                                                *)
(*                                                                         *)
(* root: the metadata of the root path, kind "dir", "locked" (a directory   *)
(* that cannot be read), "file" or "missing".                              *)
(* fs: the entries below the root; entry i is fs[i] and the entries of a   *)
(* directory are enumerated (readdir) in increasing i.  parent is 0 for    *)
(* the root or the index of a "dir" entry; size is the length the entry's  *)
(* own metadata reports; target (of a "symlink") is the index the link     *)
(* points to, 0 for the root, Dangling for a broken link.                  *)
(*                                                                         *)
(* config: the WalkConfig (and the StreamConfig of the same fields) of the *)
(* walks; walked, streamed, stats, probe: the results of walk_directory,   *)
(* walk_streaming, collect_stats and should_exclude once they were called. *)
(* cli: the command-line Config when the walk is started through lib::run, *)
(* which builds config from it.  largest: the limit and the result of a    *)
(* direct call of find_largest_files.                                      *)
(* walk: a walk taken one directory entry at a time, with the paths it    *)
(* still has to visit and the paths it has visited.                        *)
(***************************************************************************)
VARIABLES root, fs, config, walked, streamed, stats, probe, cli, largest, walk

vars == <<root, fs, config, walked, streamed, stats, probe, cli, largest, walk>>

Dangling == -1

\* the name of the root directory
RootName == <<"r">>

\* the path of the entry reached from the root through the entries of trail
PathOf(trail) == <<RootName>> \o [k \in 1..Len(trail) |-> fs[trail[k]].name]

\* the entry a trail names: its last element, 0 (the root) for the empty trail
EntryOf(trail) == IF trail = <<>> THEN 0 ELSE trail[Len(trail)]

RECURSIVE Follow(_, _)
\* the entry that id resolves to when symbolic links are followed, None for
\* a broken link or a chain of more than hops links
Follow(id, hops) ==
  IF id = 0 THEN Some(0)
  ELSE IF fs[id].kind /= "symlink" THEN Some(id)
  ELSE IF fs[id].target = Dangling \/ hops = 0 THEN None
  ELSE Follow(fs[id].target, hops - 1)

\* the kinds of directory: "dir", and "locked" for a directory whose metadata
\* can be read but whose entries cannot (read_dir fails, permission denied)
DirKinds == {"dir", "locked"}

\* the kind of entry id, the root's for 0
KindOf(id) == IF id = 0 THEN root.kind ELSE fs[id].kind

\* the metadata of entry id itself
MetaOf(id) ==
  IF id = 0
  THEN [is_dir |-> root.kind \in DirKinds, is_symlink |-> FALSE, len |-> root.size]
  ELSE [is_dir |-> fs[id].kind \in DirKinds, is_symlink |-> fs[id].kind = "symlink",
        len |-> fs[id].size]

\* the kind of an entry that the enumeration of its directory lists but whose
\* metadata cannot be read any more (it was removed after the enumeration)
Gone == "gone"

\* std::fs::metadata: follows symbolic links, Err for a broken link and for
\* an entry that is gone
fs_metadata(trail) ==
  LET t == Follow(EntryOf(trail), Len(fs)) IN
  IF IsSome(t) /\ KindOf(Unwrap(t)) /= Gone THEN Some(MetaOf(Unwrap(t))) ELSE None

\* std::fs::symlink_metadata: the metadata of the link itself, Err for an
\* entry that is gone
symlink_metadata(trail) ==
  IF KindOf(EntryOf(trail)) = Gone THEN None ELSE Some(MetaOf(EntryOf(trail)))

\* Path::is_dir: follows symbolic links, false on error
PathIsDir(trail) ==
  LET m == fs_metadata(trail) IN IsSome(m) /\ Unwrap(m).is_dir

\* mutant: the enumeration ends at the first Err item
ReadDirUntilError(trail, follow) ==
  LET d == Follow(EntryOf(trail), Len(fs))
      isChild(i) == fs[i].parent = Unwrap(d)
      errItem(i) ==
        follow /\ fs[i].kind = "symlink"
          /\ (~IsSome(Follow(i, Len(fs))) \/ Unwrap(Follow(i, Len(fs))) = Unwrap(d))
      ids == [i \in 1..Len(fs) |-> i]
  IN IF ~IsSome(d) \/ KindOf(Unwrap(d)) /= "dir" THEN <<>>
     ELSE SelectSeq(ids, LAMBDA i : /\ isChild(i)
                                    /\ \A j \in 1..i : isChild(j) => ~errItem(j))

\* the Ok items of WalkDir::new(path).min_depth(1).max_depth(1)
\* .follow_links(follow): the entries of the directory that path resolves
\* to, in enumeration order.  With follow_links a link that cannot be
\* followed, or that leads back to the directory being read, is an Err item;
\* a directory that cannot be read gives one Err item and no entry.
ReadDir(trail, follow) ==
  LET d == Follow(EntryOf(trail), Len(fs))
      isChild(i) == fs[i].parent = Unwrap(d)
      okItem(i) ==
        ~follow \/ fs[i].kind /= "symlink"
          \/ (IsSome(Follow(i, Len(fs))) /\ Unwrap(Follow(i, Len(fs))) /= Unwrap(d))
      ids == [i \in 1..Len(fs) |-> i]
  IN IF ~IsSome(d) \/ KindOf(Unwrap(d)) /= "dir" THEN <<>>
     ELSE SelectSeq(ids, LAMBDA i : isChild(i) /\ okItem(i))

\* DirEntry::metadata: fs::metadata when the walk follows links,
\* fs::symlink_metadata otherwise
DirEntryMetadata(trail, follow) ==
  IF follow THEN fs_metadata(trail) ELSE symlink_metadata(trail)

(***************************************************************************)
(* slice::sort_by: a stable sort; element i goes behind every element that *)
(* compares Less than it and every earlier element that compares Equal.    *)
(* ord[j][i] is the result of the comparison closure for (s[j], s[i]).     *)
(***************************************************************************)
StableSort(s, ord) ==
  LET before(i) == {j \in 1..Len(s) :
                      \/ ord[j][i] = Less
                      \/ (ord[j][i] = Equal /\ j < i)}
  IN [k \in 1..Len(s) |-> s[CHOOSE i \in 1..Len(s) : Cardinality(before(i)) = k - 1]]

\* slice::reverse
Reverse(s) == [k \in 1..Len(s) |-> s[Len(s) + 1 - k]]

(***************************************************************************)
(* core/models.rs                                                          *)
(***************************************************************************)
File == "File"
Directory == "Directory"
Symlink == "Symlink"

\* FsNode::new: children is None
FsNodeNew(name, path, node_type, size, depth) ==
  [name |-> name, path |-> Some(path), node_type |-> node_type, size |-> size,
   depth |-> depth, children |-> None]

\* FsNode::is_directory
is_directory(node) == node.node_type = Directory

\* mutant: an empty text after the last '.' is kept
extension_keep_empty(node) ==
  IF is_directory(node) THEN None
  ELSE IF ContainsDot(node.name) THEN Some(<<".">> \o RSplitDotFirst(node.name))
  ELSE None

\* FsNode::extension: None for a directory, for a name without '.' and for a
\* name that ends in '.'; otherwise '.' and the text after the last '.'
extension(node) ==
  IF is_directory(node) THEN None
  ELSE LET ext == RSplitDotFirst(node.name) IN
       IF ext /= <<>> /\ ContainsDot(node.name) THEN Some(<<".">> \o ext) ELSE None

\* Option<String>::unwrap_or_default, Option<&str>::unwrap_or("")
UnwrapOrEmpty(o) == IF IsSome(o) THEN Unwrap(o) ELSE <<>>

(***************************************************************************)
(* core/walker.rs                                                          *)
(***************************************************************************)
Name == "Name"
Size == "Size"
Type == "Type"

\* WalkConfig::default()
WalkConfigDefault ==
  [max_depth |-> 0, show_hidden |-> FALSE, follow_symlinks |-> FALSE,
   sort_by |-> Name, reverse |-> FALSE, filter |-> FilterConfigDefault]

\* mutant: the directories-first test is missing
WalkerCompareNoKind(a, b, sort_by) ==
  IF sort_by = Name THEN StrCmp(a.name, b.name)
  ELSE IF sort_by = Size THEN NumCmp(b.size, a.size)
  ELSE ThenWith(StrCmp(UnwrapOrEmpty(extension(a)), UnwrapOrEmpty(extension(b))),
                StrCmp(a.name, b.name))

\* mutant: Size compares ascending
WalkerCompareSizeAsc(a, b, sort_by) ==
  IF is_directory(a) /\ ~is_directory(b) THEN Less
  ELSE IF ~is_directory(a) /\ is_directory(b) THEN Greater
  ELSE IF sort_by = Name THEN StrCmp(a.name, b.name)
  ELSE IF sort_by = Size THEN NumCmp(a.size, b.size)
  ELSE ThenWith(StrCmp(UnwrapOrEmpty(extension(a)), UnwrapOrEmpty(extension(b))),
                StrCmp(a.name, b.name))

\* the comparison closure of walker::sort_entries for sort_by
WalkerCompare(a, b, sort_by) ==
  IF is_directory(a) /\ ~is_directory(b) THEN Less
  ELSE IF ~is_directory(a) /\ is_directory(b) THEN Greater
  ELSE IF sort_by = Name THEN StrCmp(a.name, b.name)
  ELSE IF sort_by = Size THEN NumCmp(b.size, a.size)
  ELSE ThenWith(StrCmp(UnwrapOrEmpty(extension(a)), UnwrapOrEmpty(extension(b))),
                StrCmp(a.name, b.name))

\* mutant: reverse is not read
sort_entries_no_reverse(entries, cfg) ==
  LET ord == [i \in 1..Len(entries) |-> [j \in 1..Len(entries) |->
                WalkerCompare(entries[i], entries[j], cfg.sort_by)]]
  IN StableSort(entries, ord)

\* walker::sort_entries
sort_entries(entries, cfg) ==
  LET ord == [i \in 1..Len(entries) |-> [j \in 1..Len(entries) |->
                WalkerCompare(entries[i], entries[j], cfg.sort_by)]]
      sorted == StableSort(entries, ord)
  IN IF cfg.reverse THEN Reverse(sorted) ELSE sorted

\* mutant: the limit is applied one level too late
AtDepthLimitLate(depth, cfg) == cfg.max_depth > 0 /\ depth > cfg.max_depth

\* the depth check of walk_recursive: the directory at depth is not read
AtDepthLimit(depth, cfg) == cfg.max_depth > 0 /\ depth >= cfg.max_depth

\* mutant: an empty vector of entries is kept
ChildrenFieldKeepEmpty(entries) == Some(entries)

\* the children of walk_recursive for the vector collect_children returned:
\* None when it is empty
ChildrenField(entries) == IF entries = <<>> THEN None ELSE Some(entries)

RECURSIVE walk_recursive(_, _, _)
RECURSIVE collect_children(_, _, _)

\* walker::walk_recursive: Some(node), or None for Err
walk_recursive(trail, depth, cfg) ==
  LET followed == fs_metadata(trail)
      meta == IF IsSome(followed) THEN followed ELSE symlink_metadata(trail)
  IN
  IF ~IsSome(meta) THEN None
  ELSE
    LET m == Unwrap(meta)
        node_type == IF m.is_symlink THEN Symlink
                     ELSE IF m.is_dir THEN Directory
                     ELSE File
        children ==
          IF node_type = Directory
          THEN IF AtDepthLimit(depth, cfg) THEN None
               ELSE ChildrenField(collect_children(trail, depth + 1, cfg))
          ELSE None
        node == FsNodeNew(UnwrapOrEmpty(FileName(PathOf(trail))), PathOf(trail), node_type,
                          m.len, depth)
    IN Some([node EXCEPT !.children = children])

\* mutant: the filter is applied to the entries that are not directories
collect_children_keep_directories(trail, depth, cfg) ==
  LET ids == ReadDir(trail, cfg.follow_symlinks)
      kept == SelectSeq(ids,
                LAMBDA i : \/ PathIsDir(trail \o <<i>>)
                           \/ ~should_exclude(cfg.filter, PathOf(trail \o <<i>>)))
      results == [k \in 1..Len(kept) |-> walk_recursive(trail \o <<kept[k]>>, depth, cfg)]
      oks == SelectSeq(results, IsSome)
      entries == [k \in 1..Len(oks) |-> Unwrap(oks[k])]
  IN sort_entries(entries, cfg)

\* walker::collect_children
collect_children(trail, depth, cfg) ==
  LET ids == ReadDir(trail, cfg.follow_symlinks)
      kept == SelectSeq(ids,
                LAMBDA i : ~should_exclude(cfg.filter, PathOf(trail \o <<i>>)))
      results == [k \in 1..Len(kept) |-> walk_recursive(trail \o <<kept[k]>>, depth, cfg)]
      oks == SelectSeq(results, IsSome)
      entries == [k \in 1..Len(oks) |-> Unwrap(oks[k])]
  IN sort_entries(entries, cfg)

RECURSIVE calculate_max_depth(_)
RECURSIVE MaxOver(_)
\* the greatest element of a non-empty sequence of numbers
MaxOver(s) ==
  IF Len(s) = 1 THEN s[1]
  ELSE LET m == MaxOver(Tail(s)) IN IF s[1] > m THEN s[1] ELSE m

\* mutant: the children are not visited
calculate_max_depth_shallow(node) == node.depth

\* walker::calculate_max_depth
calculate_max_depth(node) ==
  IF IsSome(node.children)
  THEN MaxOver(<<node.depth>> \o
         [k \in 1..Len(Unwrap(node.children)) |->
            calculate_max_depth(Unwrap(node.children)[k])])
  ELSE node.depth

\* walker::walk_directory: the Result, tree None unless Ok
walk_directory(cfg) ==
  IF root.kind = "missing" THEN [tag |-> "PathNotFound", tree |-> None]
  ELSE IF ~MetaOf(0).is_dir THEN [tag |-> "NotADirectory", tree |-> None]
  ELSE LET r == walk_recursive(<<>>, 0, cfg) IN
       IF ~IsSome(r) THEN [tag |-> "Io", tree |-> None]
       ELSE [tag |-> "Ok",
             tree |-> Some([root |-> Unwrap(r),
                            max_depth |-> calculate_max_depth(Unwrap(r))])]

(***************************************************************************)
(* core/streaming.rs                                                       *)
(***************************************************************************)
\* the comparison closure of streaming::sort_entries for sort_by; a and b
\* are the trails of two DirEntry values
StreamCompare(a, b, sort_by, follow) ==
  LET a_is_dir == PathIsDir(a)
      b_is_dir == PathIsDir(b)
      a_meta == DirEntryMetadata(a, follow)
      b_meta == DirEntryMetadata(b, follow)
      a_size == IF IsSome(a_meta) THEN Unwrap(a_meta).len ELSE 0
      b_size == IF IsSome(b_meta) THEN Unwrap(b_meta).len ELSE 0
      a_name == fs[EntryOf(a)].name
      b_name == fs[EntryOf(b)].name
  IN
  IF a_is_dir /\ ~b_is_dir THEN Less
  ELSE IF ~a_is_dir /\ b_is_dir THEN Greater
  ELSE IF sort_by = Name THEN StrCmp(a_name, b_name)
  ELSE IF sort_by = Size THEN NumCmp(b_size, a_size)
  ELSE ThenWith(StrCmp(UnwrapOrEmpty(PathExtension(PathOf(a))),
                       UnwrapOrEmpty(PathExtension(PathOf(b)))),
                StrCmp(a_name, b_name))

\* streaming::sort_entries: reverse is not read
stream_sort_entries(entries, cfg) ==
  LET ord == [i \in 1..Len(entries) |-> [j \in 1..Len(entries) |->
                StreamCompare(entries[i], entries[j], cfg.sort_by, cfg.follow_symlinks)]]
  IN StableSort(entries, ord)

\* streaming::has_children
has_children(trail, cfg) ==
  \E k \in 1..Len(ReadDir(trail, cfg.follow_symlinks)) :
     ~should_exclude(cfg.filter, PathOf(trail \o <<ReadDir(trail, cfg.follow_symlinks)[k]>>))

RECURSIVE Concat(_)
\* the concatenation of a sequence of sequences
Concat(ss) == IF ss = <<>> THEN <<>> ELSE Head(ss) \o Concat(Tail(ss))

\* the depth check of walk_recursive_streaming: the call returns at once
BeyondDepthLimit(depth, cfg) == cfg.max_depth > 0 /\ depth > cfg.max_depth

\* mutant: a directory is passed to the callback after the entries below it
EmitDirectoryAfter(record, below) == below \o <<record>>

\* the callbacks for a Directory entry: the directory is emitted first, then
\* the recursion emits what lies below it
EmitDirectory(record, below) == <<record>> \o below

RECURSIVE walk_recursive_streaming(_, _, _, _)
\* streaming::walk_recursive_streaming: the StreamNode values passed to the
\* callback, in order
walk_recursive_streaming(trail, depth, is_last_arg, cfg) ==
  IF BeyondDepthLimit(depth, cfg) THEN <<>>
  ELSE
    LET ids == ReadDir(trail, cfg.follow_symlinks)
        kept == SelectSeq(ids,
                  LAMBDA i : ~should_exclude(cfg.filter, PathOf(trail \o <<i>>)))
        unsorted == [k \in 1..Len(kept) |-> trail \o <<kept[k]>>]
        entries == stream_sort_entries(unsorted, cfg)
        total == Len(entries)
        process(i) ==
          LET entry == entries[i + 1]
              followed == fs_metadata(entry)
              meta == IF IsSome(followed) THEN followed ELSE symlink_metadata(entry)
          IN
          IF ~IsSome(meta) THEN <<>>
          ELSE
            LET m == Unwrap(meta)
                node_type == IF m.is_symlink THEN Symlink
                             ELSE IF m.is_dir THEN Directory
                             ELSE File
                is_last == (i = total - 1)
                node == [name |-> fs[EntryOf(entry)].name, path |-> PathOf(entry),
                         node_type |-> node_type, size |-> m.len, depth |-> depth,
                         has_children |-> FALSE, is_last |-> is_last]
            IN
            IF node_type = Directory
            THEN EmitDirectory([node EXCEPT !.has_children = has_children(entry, cfg)],
                               walk_recursive_streaming(entry, depth + 1, is_last, cfg))
            ELSE <<node>>
    IN Concat([k \in 1..total |-> process(k - 1)])

\* mutant: the root is not validated
walk_streaming_unchecked(cfg) ==
  [tag |-> "Ok", records |-> walk_recursive_streaming(<<>>, 0, TRUE, cfg)]

\* streaming::walk_streaming: the Result and the callback invocations made
walk_streaming(cfg) ==
  IF root.kind = "missing" THEN [tag |-> "PathNotFound", records |-> <<>>]
  ELSE IF ~MetaOf(0).is_dir THEN [tag |-> "NotADirectory", records |-> <<>>]
  ELSE [tag |-> "Ok", records |-> walk_recursive_streaming(<<>>, 0, TRUE, cfg)]

(***************************************************************************)
(* core/collector.rs                                                       *)
(***************************************************************************)
DEFAULT_MAX_LARGEST == 10

\* the bucket key of a file without extension
NoExtension == <<"(no extension)">>

\* TreeStats::new() with the all_files vector of collect_stats
CountsNew ==
  [total_files |-> 0, total_directories |-> 0, total_symlinks |-> 0,
   total_size |-> 0, all_files |-> <<>>]

RECURSIVE count_nodes(_, _)
RECURSIVE CountEach(_, _)
\* the loop of count_nodes over children
CountEach(children, acc) ==
  IF children = <<>> THEN acc
  ELSE CountEach(Tail(children), count_nodes(Head(children), acc))

\* mutant: a Symlink node is counted as a file
count_nodes_links_as_files(node, acc) ==
  LET counted ==
        IF node.node_type = Directory
        THEN [acc EXCEPT !.total_directories = @ + 1]
        ELSE [acc EXCEPT !.total_files = @ + 1, !.total_size = @ + node.size,
                         !.all_files = Append(@, node)]
  IN IF IsSome(node.children) THEN CountEach(Unwrap(node.children), counted)
     ELSE counted

\* collector::count_nodes: acc after node and its subtree are counted
count_nodes(node, acc) ==
  LET counted ==
        IF node.node_type = Directory
        THEN [acc EXCEPT !.total_directories = @ + 1]
        ELSE IF node.node_type = File
        THEN [acc EXCEPT !.total_files = @ + 1, !.total_size = @ + node.size,
                         !.all_files = Append(@, node)]
        ELSE [acc EXCEPT !.total_symlinks = @ + 1]
  IN IF IsSome(node.children) THEN CountEach(Unwrap(node.children), counted)
     ELSE counted

\* the sum of the sizes of the nodes of files
RECURSIVE SumSizes(_)
SumSizes(files) == IF files = <<>> THEN 0 ELSE Head(files).size + SumSizes(Tail(files))

\* the bucket key of analyze_by_extension
BucketKey(file) == IF IsSome(extension(file)) THEN Unwrap(extension(file)) ELSE NoExtension

\* mutant: a file's size replaces the size of its bucket instead of being
\* added to it
analyze_by_extension_last_size(files, total_size) ==
  LET keys == {BucketKey(files[k]) : k \in 1..Len(files)}
      bucket(ext) == SelectSeq(files, LAMBDA f : BucketKey(f) = ext)
      last(ext) == bucket(ext)[Len(bucket(ext))].size
  IN [ext \in keys |->
        [extension |-> ext, count |-> Len(bucket(ext)),
         total_size |-> last(ext),
         percentage |-> IF total_size > 0
                        THEN <<last(ext) * 100, total_size>>
                        ELSE <<0, 1>>]]

\* collector::analyze_by_extension: the map from bucket key to FileTypeInfo;
\* percentage is the quotient size * 100 / total_size kept as <<num, den>>
analyze_by_extension(files, total_size) ==
  LET keys == {BucketKey(files[k]) : k \in 1..Len(files)}
      bucket(ext) == SelectSeq(files, LAMBDA f : BucketKey(f) = ext)
  IN [ext \in keys |->
        [extension |-> ext, count |-> Len(bucket(ext)),
         total_size |-> SumSizes(bucket(ext)),
         percentage |-> IF total_size > 0
                        THEN <<SumSizes(bucket(ext)) * 100, total_size>>
                        ELSE <<0, 1>>]]

\* Vec::truncate
Truncate(s, limit) == IF Len(s) > limit THEN SubSeq(s, 1, limit) ELSE s

\* mutant: the vector is truncated before it is sorted
find_largest_files_truncate_first(files, limit) ==
  LET entries == Truncate([k \in 1..Len(files) |->
                    [name |-> files[k].name, path |-> UnwrapOrEmpty(files[k].path),
                     size |-> files[k].size]], limit)
      ord == [i \in 1..Len(entries) |-> [j \in 1..Len(entries) |->
                NumCmp(entries[j].size, entries[i].size)]]
  IN StableSort(entries, ord)

\* collector::find_largest_files
find_largest_files(files, limit) ==
  LET entries == [k \in 1..Len(files) |->
                    [name |-> files[k].name, path |-> UnwrapOrEmpty(files[k].path),
                     size |-> files[k].size]]
      ord == [i \in 1..Len(entries) |-> [j \in 1..Len(entries) |->
                NumCmp(entries[j].size, entries[i].size)]]
  IN Truncate(StableSort(entries, ord), limit)

\* collector::collect_stats (scan_duration, a clock reading, is left out)
collect_stats(tree) ==
  LET counts == count_nodes(tree.root, CountsNew) IN
  [total_files |-> counts.total_files,
   total_directories |-> counts.total_directories,
   total_symlinks |-> counts.total_symlinks,
   total_size |-> counts.total_size,
   files_by_extension |-> analyze_by_extension(counts.all_files, counts.total_size),
   largest_files |-> find_largest_files(counts.all_files, DEFAULT_MAX_LARGEST)]

\* FsNode::is_file
is_file(node) == node.node_type = File

RECURSIVE collect_files_recursive(_, _)
\* collector::collect_files_recursive: files after node and its subtree
collect_files_recursive(node, files) ==
  LET RECURSIVE each(_, _)
      each(children, acc) ==
        IF children = <<>> THEN acc
        ELSE each(Tail(children), collect_files_recursive(Head(children), acc))
      pushed == IF is_file(node) THEN Append(files, node) ELSE files
  IN IF IsSome(node.children) THEN each(Unwrap(node.children), pushed) ELSE pushed

\* collector::get_all_files
get_all_files(tree) == collect_files_recursive(tree.root, <<>>)

RECURSIVE collect_dirs_recursive(_, _)
\* collector::collect_dirs_recursive: dirs after node and its subtree
collect_dirs_recursive(node, dirs) ==
  LET RECURSIVE each(_, _)
      each(children, acc) ==
        IF children = <<>> THEN acc
        ELSE each(Tail(children), collect_dirs_recursive(Head(children), acc))
      pushed == IF is_directory(node) THEN Append(dirs, node) ELSE dirs
  IN IF IsSome(node.children) THEN each(Unwrap(node.children), pushed) ELSE pushed

\* collector::get_all_directories
get_all_directories(tree) == collect_dirs_recursive(tree.root, <<>>)

RECURSIVE count_nodes_recursive(_)
\* collector::count_nodes_recursive
count_nodes_recursive(node) ==
  LET RECURSIVE each(_, _)
      each(children, count) ==
        IF children = <<>> THEN count
        ELSE each(Tail(children), count + count_nodes_recursive(Head(children)))
  IN IF IsSome(node.children) THEN each(Unwrap(node.children), 1) ELSE 1

\* collector::total_node_count
total_node_count(tree) == count_nodes_recursive(tree.root)

(***************************************************************************)
(* config.rs, lib.rs                                                       *)
(***************************************************************************)
RECURSIVE AddExcludes(_, _)
\* the loop of to_walk_config over the exclude patterns: the Result of each
\* add_exclude is dropped (let _ =)
AddExcludes(filter, texts) ==
  IF texts = <<>> THEN filter
  ELSE AddExcludes(add_exclude(filter, Head(texts)).filter, Tail(texts))

\* Config::to_walk_config, for a Config without --exclude-common
to_walk_config(c) ==
  LET hidden == [FilterConfigDefault EXCEPT !.exclude_hidden = ~c.show_hidden]
      excluding == AddExcludes(hidden, c.exclude)
      filter == IF IsSome(c.include_only)
                THEN set_include(excluding, Unwrap(c.include_only)).filter
                ELSE excluding
  IN [max_depth |-> c.max_depth, show_hidden |-> c.show_hidden,
      follow_symlinks |-> c.follow_symlinks, sort_by |-> c.sort_by,
      reverse |-> c.reverse, filter |-> filter]

\* Config::top_files_count: self.top_files.max(1)
top_files_count(c) == IF c.top_files > 1 THEN c.top_files ELSE 1

(***************************************************************************)
(* The snapshots and configurations explored.                              *)
(***************************************************************************)
\* A family of snapshots: the names, the file and directory sizes and the
\* kinds of link its entries are drawn from, whether directories below the
\* root have entries and whether some directories cannot be read.
\* the records an entry of a snapshot of n entries may be
EntryRecords(fam, n) ==
  LET parents == IF fam.nested THEN 0..(n - 1) ELSE {0}
  IN [parent : parents, name : fam.names, kind : {"file"}, size : fam.file_sizes,
      target : {Dangling}]
       \cup [parent : parents, name : fam.names,
             kind : {"dir"} \cup (IF fam.locked_dirs THEN {"locked"} ELSE {}),
             size : fam.dir_sizes, target : {Dangling}]
       \cup [parent : parents, name : fam.names, kind : {"symlink"}, size : {1},
             target : (IF fam.broken_links THEN {Dangling} ELSE {})
                        \cup (IF fam.file_links \/ fam.dir_links THEN 1..(n - 1) ELSE {})]

RECURSIVE IsAncestor(_, _, _)
\* entry a of f is a directory above entry i
IsAncestor(f, a, i) ==
  f[i].parent /= 0 /\ (f[i].parent = a \/ IsAncestor(f, a, f[i].parent))

\* the links of f that point to a directory
DirLinks(f) ==
  {i \in DOMAIN f : /\ f[i].kind = "symlink"
                    /\ f[i].target /= Dangling
                    /\ f[f[i].target].kind \in DirKinds}

\* f is a filesystem: an entry lies in the root or in an earlier directory,
\* under a name no other entry of that directory has, and a link that is not
\* broken points to an earlier file or directory.  A link to a directory does
\* not point to a directory above it and is the only such link, so that no
\* path runs through a link twice.
IsSnapshot(f) ==
  /\ \A i \in DOMAIN f :
       /\ f[i].parent < i
       /\ f[i].parent /= 0 => f[f[i].parent].kind \in DirKinds
       /\ \A j \in DOMAIN f :
            (j < i /\ f[j].parent = f[i].parent) => f[j].name /= f[i].name
       /\ (f[i].kind = "symlink" /\ f[i].target /= Dangling) =>
            (f[i].target < i /\ f[f[i].target].kind /= "symlink")
  /\ \A i \in DirLinks(f) : ~IsAncestor(f, f[i].target, i)
  /\ Cardinality(DirLinks(f)) <= 1

\* the snapshots of exactly n entries of a family
SnapshotsOf(n, fam) ==
  {f \in [1..n -> EntryRecords(fam, n)] :
     /\ IsSnapshot(f)
     /\ fam.dir_links \/ DirLinks(f) = {}
     /\ fam.file_links \/ \A i \in DOMAIN f :
                            f[i].kind = "symlink" =>
                              (f[i].target = Dangling \/ i \in DirLinks(f))}

\* "*.x"
PatStarDotX == <<"*", ".", "x">>
\* "r/a*"
PatRootA == <<"r", "/", "a", "*">>
\* ".?"
PatDotAny == <<".", "?">>

\* Ordering: a directory of entries of every kind, of names with and without
\* extension and of every size, walked under each sort field, forwards and
\* reversed.
OrderFamily ==
  [names |-> { <<"a">>, <<"a", ".", "y">>, <<"b", ".", "x">>, <<"a", ".", "x">> },
   file_sizes |-> 0..MaxSize, dir_sizes |-> {0, MaxSize},
   broken_links |-> TRUE, file_links |-> FALSE, nested |-> FALSE,
   locked_dirs |-> FALSE, dir_links |-> FALSE]

OrderConfigs ==
  { [WalkConfigDefault EXCEPT !.sort_by = sb, !.reverse = rv]
    : sb \in {Name, Size, Type}, rv \in BOOLEAN }

\* Depth and visibility: files and directories, hidden or not, walked under
\* each depth limit and each setting of show_hidden and exclude_hidden.
DepthFamily ==
  [names |-> { <<"a">>, <<".", "a">> },
   file_sizes |-> {1}, dir_sizes |-> {0},
   broken_links |-> FALSE, file_links |-> FALSE, nested |-> TRUE,
   locked_dirs |-> FALSE, dir_links |-> FALSE]

DepthConfigs ==
  { [WalkConfigDefault EXCEPT !.max_depth = d, !.show_hidden = sh, !.reverse = rv,
                              !.filter.exclude_hidden = eh]
    : d \in 0..MaxDepthLimit, sh \in BOOLEAN, rv \in BOOLEAN, eh \in BOOLEAN }

\* Patterns: files, directories and links walked under filters with exclude
\* and include patterns.
PatternFamily ==
  [names |-> { <<"a">>, <<".", "a">>, <<"a", ".", "x">> },
   file_sizes |-> {1}, dir_sizes |-> {0},
   broken_links |-> FALSE, file_links |-> TRUE, nested |-> TRUE,
   locked_dirs |-> FALSE, dir_links |-> FALSE]

PatternConfigs ==
  { [WalkConfigDefault EXCEPT
       !.filter = [exclude_patterns |-> ex, include_pattern |-> inc,
                   exclude_hidden |-> eh]]
    : ex \in { <<>>, <<PatStarDotX>>, <<PatRootA, PatDotAny>> },
      inc \in { None, Some(PatStarDotX), Some(PatRootA) },
      eh \in BOOLEAN }

\* the paths given to should_exclude directly: up to MaxPathLen components
ProbePaths ==
  UNION { [1..n -> {RootName, DotDot, <<".", "a">>, <<"a", ".", "x">>, <<"a">>}]
          : n \in 0..MaxPathLen }

Init ==
  /\ root = [kind |-> "dir", size |-> 1]
  /\ \E n \in 0..MaxEntries :
       \/ fs \in SnapshotsOf(n, OrderFamily) /\ config \in OrderConfigs
       \/ fs \in SnapshotsOf(n, DepthFamily) /\ config \in DepthConfigs
       \/ fs \in SnapshotsOf(n, PatternFamily) /\ config \in PatternConfigs
  /\ walked = None
  /\ streamed = None
  /\ stats = None
  /\ probe = None
  /\ largest = None
  /\ walk = None
  /\ cli = None

\* a call of walk_directory(root, &config)
WalkDirectory ==
  /\ walked = None
  /\ walked' = Some(walk_directory(config))
  /\ UNCHANGED <<root, fs, config, streamed, stats, probe, cli, largest, walk>>

\* a call of walk_streaming(root, config, callback)
WalkStreaming ==
  /\ streamed = None
  /\ streamed' = Some(walk_streaming(config))
  /\ UNCHANGED <<root, fs, config, walked, stats, probe, cli, largest, walk>>

\* a call of collect_stats(&tree, start_time) on the tree walk_directory returned
CollectStats ==
  /\ IsSome(walked)
  /\ Unwrap(walked).tag = "Ok"
  /\ stats = None
  /\ stats' = Some(collect_stats(Unwrap(Unwrap(walked).tree)))
  /\ UNCHANGED <<root, fs, config, walked, streamed, probe, cli, largest, walk>>

\* a direct call of config.filter.should_exclude(path), as the unit tests of
\* filter.rs make it: path is any path, not an entry of the snapshot (the
\* function reads neither), so the calls are explored over the empty snapshot
ShouldExclude(path) ==
  /\ fs = <<>>
  /\ walked = None /\ streamed = None
  /\ probe = None
  /\ probe' = Some([path |-> path, excluded |-> should_exclude(config.filter, path)])
  /\ UNCHANGED <<root, fs, config, walked, streamed, stats, cli, largest, walk>>

Next ==
  \/ WalkDirectory
  \/ WalkStreaming
  \/ CollectStats
  \/ \E path \in ProbePaths : ShouldExclude(path)

Spec == Init /\ [][Next]_vars

\* Faults and links: files, directories that can and cannot be read, and
\* links that are broken or lead to a file or to a directory, walked with and
\* without following links, under each depth limit, hidden entries excluded
\* or not.
FaultFamily ==
  [names |-> { <<"a">>, <<".", "a">> },
   file_sizes |-> {1}, dir_sizes |-> {0},
   broken_links |-> TRUE, file_links |-> TRUE, nested |-> TRUE,
   locked_dirs |-> TRUE, dir_links |-> TRUE]

FaultConfigs ==
  { [WalkConfigDefault EXCEPT !.max_depth = d, !.follow_symlinks = fl,
                              !.filter.exclude_hidden = eh]
    : d \in 0..MaxDepthLimit, fl \in BOOLEAN, eh \in BOOLEAN }

\* the root path: a directory that can or cannot be read, with entries below
\* it, or a file or a path that does not exist, with none
FaultInit ==
  /\ \E n \in 0..MaxEntries :
       /\ fs \in SnapshotsOf(n, FaultFamily)
       /\ \/ root \in [kind : DirKinds, size : {1}]
          \/ n = 0 /\ root \in [kind : {"file", "missing"}, size : {1}]
  /\ config \in FaultConfigs
  /\ walked = None
  /\ streamed = None
  /\ stats = None
  /\ probe = None
  /\ largest = None
  /\ walk = None
  /\ cli = None

FaultSpec == FaultInit /\ [][Next]_vars

\* the snapshots that hold the entries of base and, after them, exactly n
\* entries of a family
SnapshotsOver(base, n, fam) ==
  LET whole(g) == base \o [k \in 1..n |-> g[k]]
  IN {whole(g) : g \in {h \in [1..n -> EntryRecords(fam, n + Len(base))] :
                          /\ IsSnapshot(whole(h))
                          /\ fam.dir_links \/ DirLinks(whole(h)) = {}}}

\* a directory a that holds a file a
DirWithFile ==
  << [parent |-> 0, name |-> <<"a">>, kind |-> "dir", size |-> 0, target |-> Dangling],
     [parent |-> 1, name |-> <<"a">>, kind |-> "file", size |-> 1, target |-> Dangling] >>

\* Links: next to a directory that holds a file, files and links that are
\* broken or lead to a file or to a directory, walked with and without
\* following links.
LinkFamily ==
  [names |-> { <<"b">>, <<".", "a">> },
   file_sizes |-> {1}, dir_sizes |-> {0},
   broken_links |-> TRUE, file_links |-> TRUE, nested |-> TRUE,
   locked_dirs |-> FALSE, dir_links |-> TRUE]

LinkConfigs ==
  { [WalkConfigDefault EXCEPT !.follow_symlinks = fl, !.filter.exclude_hidden = eh]
    : fl \in BOOLEAN, eh \in BOOLEAN }

LinkInit ==
  /\ root = [kind |-> "dir", size |-> 1]
  /\ \E n \in 0..MaxEntries : fs \in SnapshotsOver(DirWithFile, n, LinkFamily)
  /\ config \in LinkConfigs
  /\ walked = None
  /\ streamed = None
  /\ stats = None
  /\ probe = None
  /\ largest = None
  /\ walk = None
  /\ cli = None

LinkNext ==
  \/ WalkDirectory
  \/ WalkStreaming
  \/ CollectStats

LinkSpec == LinkInit /\ [][LinkNext]_vars

\* Statistics: a directory of files, directories and links whose names have
\* no dot, one dot, two dots, a leading dot and a trailing dot, of every size.
StatsFamily ==
  [names |-> { <<"a">>, <<"a", ".", "x">>, <<"a", ".">>, <<"b", ".", "x", ".", "y">>,
               <<".", "a">> },
   file_sizes |-> 0..MaxSize, dir_sizes |-> {0},
   broken_links |-> TRUE, file_links |-> FALSE, nested |-> FALSE,
   locked_dirs |-> FALSE, dir_links |-> FALSE]

StatsInit ==
  /\ root = [kind |-> "dir", size |-> 1]
  /\ \E n \in 0..MaxEntries : fs \in SnapshotsOf(n, StatsFamily)
  /\ config = WalkConfigDefault
  /\ walked = None
  /\ streamed = None
  /\ stats = None
  /\ probe = None
  /\ largest = None
  /\ walk = None
  /\ cli = None

StatsNext ==
  \/ WalkDirectory
  \/ CollectStats

StatsSpec == StatsInit /\ [][StatsNext]_vars

\* Largest files: files of every size and broken links in the root and in
\* directories below it, with find_largest_files called as its unit test calls it, under each
\* limit up to the number of entries.
TopFamily ==
  [names |-> { <<"a">>, <<"b">> },
   file_sizes |-> 0..MaxSize, dir_sizes |-> {0},
   broken_links |-> TRUE, file_links |-> FALSE, nested |-> TRUE,
   locked_dirs |-> FALSE, dir_links |-> FALSE]

TopInit ==
  /\ root = [kind |-> "dir", size |-> 1]
  /\ \E n \in 0..MaxEntries : fs \in SnapshotsOf(n, TopFamily)
  /\ config = WalkConfigDefault
  /\ walked = None
  /\ streamed = None
  /\ stats = None
  /\ probe = None
  /\ largest = None
  /\ walk = None
  /\ cli = None

\* a call of find_largest_files(&all_files, limit) on the files of the tree,
\* collected as collect_stats collects them
FindLargestFiles(limit) ==
  /\ IsSome(walked)
  /\ Unwrap(walked).tag = "Ok"
  /\ largest = None
  /\ largest' =
       Some([limit |-> limit,
             files |-> find_largest_files(
                         count_nodes(Unwrap(Unwrap(walked).tree).root, CountsNew).all_files,
                         limit)])
  /\ UNCHANGED <<root, fs, config, walked, streamed, stats, probe, cli, walk>>

TopNext ==
  \/ WalkDirectory
  \/ CollectStats
  \/ \E limit \in 0..MaxEntries : FindLargestFiles(limit)

TopSpec == TopInit /\ [][TopNext]_vars

\* "["
PatOpenBracket == <<"[">>

\* Command lines: exclude and include-only patterns, valid and invalid, with
\* hidden entries shown or not, in tree or streaming mode, asking for no, one
\* or the default number of largest files.
CliConfigs ==
  [max_depth : {0}, show_hidden : BOOLEAN, follow_symlinks : {FALSE},
   sort_by : {Name}, reverse : {FALSE}, streaming : BOOLEAN,
   top_files : {0, 1, DEFAULT_MAX_LARGEST},
   exclude : { <<>>, <<PatStarDotX>>, <<PatOpenBracket>>,
               <<PatOpenBracket, PatStarDotX>> },
   include_only : { None, Some(PatStarDotX), Some(PatOpenBracket) }]

ConfigInit ==
  /\ root = [kind |-> "dir", size |-> 1]
  /\ \E n \in 0..MaxEntries : fs \in SnapshotsOf(n, PatternFamily)
  /\ \E c \in CliConfigs : cli = Some(c)
  /\ config = WalkConfigDefault
  /\ walked = None
  /\ streamed = None
  /\ stats = None
  /\ probe = None
  /\ largest = None
  /\ walk = None

\* lib::run without --streaming: the WalkConfig is built, the directory is
\* walked and, when that is Ok, the statistics are collected
Run ==
  /\ ~Unwrap(cli).streaming
  /\ walked = None
  /\ LET built == to_walk_config(Unwrap(cli))
         result == walk_directory(built)
     IN /\ config' = built
        /\ walked' = Some(result)
        /\ stats' = IF result.tag = "Ok"
                    THEN Some(collect_stats(Unwrap(result.tree)))
                    ELSE None
  /\ UNCHANGED <<root, fs, streamed, probe, cli, largest, walk>>

\* lib::run with --streaming (run_streaming): the StreamConfig is built with
\* the filter of to_walk_config and the directory is streamed
RunStreaming ==
  /\ Unwrap(cli).streaming
  /\ streamed = None
  /\ LET built == to_walk_config(Unwrap(cli))
     IN /\ config' = built
        /\ streamed' = Some(walk_streaming(built))
  /\ UNCHANGED <<root, fs, walked, stats, probe, cli, largest, walk>>

ConfigNext ==
  \/ Run
  \/ RunStreaming

ConfigSpec == ConfigInit /\ [][ConfigNext]_vars

\* Entries that vanish: files and directories of which any files may be
\* gone by the time their metadata is read, walked under each sort field.
GoneFamily ==
  [names |-> { <<"a">>, <<"b">> },
   file_sizes |-> 0..MaxSize, dir_sizes |-> {0},
   broken_links |-> FALSE, file_links |-> FALSE, nested |-> TRUE,
   locked_dirs |-> FALSE, dir_links |-> FALSE]

\* the snapshot f with the files of the set gone marked as gone
MarkGone(f, gone) ==
  [i \in DOMAIN f |-> IF i \in gone THEN [f[i] EXCEPT !.kind = Gone] ELSE f[i]]

GoneConfigs ==
  {[WalkConfigDefault EXCEPT !.sort_by = sb] : sb \in {Name, Size, Type}}

GoneInit ==
  /\ root = [kind |-> "dir", size |-> 1]
  /\ \E n \in 0..MaxEntries :
       \E f \in SnapshotsOf(n, GoneFamily) :
         \E gone \in SUBSET {i \in DOMAIN f : f[i].kind = "file"} :
           fs = MarkGone(f, gone)
  /\ config \in GoneConfigs
  /\ walked = None
  /\ streamed = None
  /\ stats = None
  /\ probe = None
  /\ largest = None
  /\ walk = None
  /\ cli = None

GoneNext ==
  \/ WalkDirectory
  \/ WalkStreaming

GoneSpec == GoneInit /\ [][GoneNext]_vars

\* Depth: next to a directory that holds a file, further files and
\* directories at every level, walked under each depth limit.
DeepFamily ==
  [names |-> { <<"a">>, <<"b">> },
   file_sizes |-> {1}, dir_sizes |-> {0},
   broken_links |-> FALSE, file_links |-> FALSE, nested |-> TRUE,
   locked_dirs |-> FALSE, dir_links |-> FALSE]

DeepConfigs ==
  {[WalkConfigDefault EXCEPT !.max_depth = d] : d \in 0..MaxDepthLimit}

DeepInit ==
  /\ root = [kind |-> "dir", size |-> 1]
  /\ \E n \in 0..MaxEntries : fs \in SnapshotsOver(DirWithFile, n, DeepFamily)
  /\ config \in DeepConfigs
  /\ walked = None
  /\ streamed = None
  /\ stats = None
  /\ probe = None
  /\ largest = None
  /\ walk = None
  /\ cli = None

DeepNext ==
  \/ WalkDirectory
  \/ WalkStreaming

DeepSpec == DeepInit /\ [][DeepNext]_vars

(***************************************************************************)
(* The walks taken one entry at a time, on snapshots in which a symbolic   *)
(* link may point to a directory above it.  The system resolves a path     *)
(* through at most MaxLinkHops symbolic links: beyond that fs::metadata,   *)
(* fs::symlink_metadata and read_dir fail (ELOOP).                         *)
(***************************************************************************)
\* the number of symbolic links among the components of the path of trail
LinksOn(trail) == Cardinality({k \in 1..Len(trail) : fs[trail[k]].kind = "symlink"})

\* the path without its last component
ParentTrail(trail) == SubSeq(trail, 1, Len(trail) - 1)

\* std::fs::metadata under the system's limit: every link of the path is followed
bounded_metadata(trail) ==
  IF LinksOn(trail) > MaxLinkHops THEN None ELSE fs_metadata(trail)

\* std::fs::symlink_metadata under the system's limit: the links of the
\* path but the last component are followed
bounded_symlink_metadata(trail) ==
  IF trail /= <<>> /\ LinksOn(ParentTrail(trail)) > MaxLinkHops THEN None
  ELSE symlink_metadata(trail)

\* the Ok items of the WalkDir of a directory under the system's limit: with
\* follow_links a link is an Ok item only if it can be followed
BoundedReadDir(trail, follow) ==
  IF LinksOn(trail) > MaxLinkHops THEN <<>>
  ELSE SelectSeq(ReadDir(trail, follow),
         LAMBDA i : ~follow \/ fs[i].kind /= "symlink"
                      \/ IsSome(bounded_metadata(trail \o <<i>>)))

RECURSIVE CanonicalTrail(_)
\* the path from the root to entry id through directories only
CanonicalTrail(id) ==
  IF id = 0 THEN <<>> ELSE CanonicalTrail(fs[id].parent) \o <<id>>

\* mutant: the path of an entry is built on the resolved path of its directory
EntryPathCanonical(trail, i) == CanonicalTrail(fs[i].parent) \o <<i>>

\* entry.path() of the entry i enumerated in the directory of trail: the
\* path of the directory extended by the entry's name
EntryPath(trail, i) == trail \o <<i>>

\* the paths of the entries of a directory that pass the filter, as enumerated
EnumeratedEntries(trail, cfg) ==
  LET ids == BoundedReadDir(trail, cfg.follow_symlinks)
      kept == SelectSeq(ids,
                LAMBDA i : ~should_exclude(cfg.filter, PathOf(trail \o <<i>>)))
  IN [k \in 1..Len(kept) |-> EntryPath(trail, kept[k])]

\* the order in which the recursion is called for the enumerated entries:
\* walk_directory visits them as enumerated (collect_children sorts the
\* nodes afterwards), walk_streaming sorts them first
EntriesToVisit(walker, unsorted, cfg) ==
  IF walker = "walk_streaming" THEN stream_sort_entries(unsorted, cfg) ELSE unsorted

\* the records of a snapshot with links to directories above them
LoopRecords(n) ==
  [parent : 0..(n - 1), name : { <<"a">>, <<"b">> }, kind : {"file"}, size : {1},
   target : {Dangling}]
    \cup [parent : 0..(n - 1), name : { <<"a">>, <<"b">> }, kind : {"dir"}, size : {0},
          target : {Dangling}]
    \cup [parent : 0..(n - 1), name : { <<"a">>, <<"b">> }, kind : {"symlink"},
          size : {1}, target : 0..(n - 1)]

\* f is a filesystem whose links point to the root, to an earlier file or
\* to an earlier directory, the directories above the link included
IsLoopSnapshot(f) ==
  \A i \in DOMAIN f :
    /\ f[i].parent < i
    /\ f[i].parent /= 0 => f[f[i].parent].kind = "dir"
    /\ \A j \in DOMAIN f :
         (j < i /\ f[j].parent = f[i].parent) => f[j].name /= f[i].name
    /\ f[i].kind = "symlink" =>
         /\ f[i].target < i
         /\ f[i].target /= 0 => f[f[i].target].kind /= "symlink"

LoopConfigs ==
  {[WalkConfigDefault EXCEPT !.follow_symlinks = fl, !.sort_by = sb] :
     fl \in BOOLEAN, sb \in {Name, Type}}

LoopInit ==
  /\ root = [kind |-> "dir", size |-> 1]
  /\ \E n \in 0..MaxEntries :
       fs \in {f \in [1..n -> LoopRecords(n)] : IsLoopSnapshot(f)}
  /\ config \in LoopConfigs
  /\ walked = None
  /\ streamed = None
  /\ stats = None
  /\ probe = None
  /\ largest = None
  /\ cli = None
  /\ walk = None

\* walk_directory or walk_streaming is called: the root passed validation
\* and the recursion starts at it
StartWalk(walker) ==
  /\ walk = None
  /\ MetaOf(0).is_dir
  /\ walk' = Some([walker |-> walker, todo |-> << <<>> >>, visited |-> {}])
  /\ UNCHANGED <<root, fs, config, walked, streamed, stats, probe, cli, largest>>

\* the recursion reaches the next path: the entry is classified, skipped
\* if its metadata cannot be read, and its entries are visited next if it
\* is a Directory
WalkStep ==
  /\ IsSome(walk)
  /\ Unwrap(walk).todo /= <<>>
  /\ LET w == Unwrap(walk)
         trail == Head(w.todo)
         followed == bounded_metadata(trail)
         meta == IF IsSome(followed) THEN followed ELSE bounded_symlink_metadata(trail)
         descend == IsSome(meta) /\ ~Unwrap(meta).is_symlink /\ Unwrap(meta).is_dir
     IN \E unsorted \in {IF descend THEN EnumeratedEntries(trail, config) ELSE <<>>} :
          walk' = Some([w EXCEPT !.todo = EntriesToVisit(w.walker, unsorted, config)
                                            \o Tail(w.todo),
                                !.visited = IF IsSome(meta) THEN @ \cup {trail} ELSE @])
  /\ UNCHANGED <<root, fs, config, walked, streamed, stats, probe, cli, largest>>

LoopNext ==
  \/ StartWalk("walk_directory")
  \/ StartWalk("walk_streaming")
  \/ WalkStep

\* a walk that was called keeps running until it returns
LoopSpec == LoopInit /\ [][LoopNext]_vars /\ WF_vars(WalkStep)

(***************************************************************************)
(* Reading the results.                                                    *)
(***************************************************************************)
TreeOk == IsSome(walked) /\ Unwrap(walked).tag = "Ok"
Tree == Unwrap(Unwrap(walked).tree)
StreamOk == IsSome(streamed) /\ Unwrap(streamed).tag = "Ok"
Records == Unwrap(streamed).records

\* the children of a node as a sequence, empty when the field is None
ChildrenOf(node) == IF IsSome(node.children) THEN Unwrap(node.children) ELSE <<>>

RECURSIVE AllNodes(_)
\* the set of the nodes of the subtree of node, node included
AllNodes(node) ==
  {node} \cup UNION {AllNodes(ChildrenOf(node)[k]) : k \in 1..Len(ChildrenOf(node))}

\* the nodes of the tree below the root
NonRootNodes(tree) == AllNodes(tree.root) \ {tree.root}

RECURSIVE PreOrder(_)
\* the nodes below node in depth-first pre-order, each as
\* (name, depth, is last among its siblings)
PreOrder(node) ==
  LET c == ChildrenOf(node) IN
  Concat([k \in 1..Len(c) |->
            <<[name |-> c[k].name, depth |-> c[k].depth, is_last |-> (k = Len(c))]>>
              \o PreOrder(c[k])])

\* the records passed to the callback, each as (name, depth, is_last)
RecordTuples ==
  [k \in 1..Len(Records) |->
     [name |-> Records[k].name, depth |-> Records[k].depth,
      is_last |-> Records[k].is_last]]

\* the tree walk_directory returns for the configuration with max_depth = 0
UnlimitedRoot == Unwrap(walk_recursive(<<>>, 0, [config EXCEPT !.max_depth = 0]))

(***************************************************************************)
(* Claims.                                                                 *)
(***************************************************************************)

\* C1: the non-root nodes of the tree of walk_directory, listed depth-first
\* pre-order as (name, depth, is_last), are exactly the sequence of records
\* walk_streaming passes to its callback for the same configuration.
C1_StreamMatchesTree ==
  (TreeOk /\ StreamOk) => PreOrder(Tree.root) = RecordTuples

\* C2: the root has depth 0, every child has depth parent.depth + 1, and with
\* max_depth = D > 0 no node is deeper than D: the tree is the unlimited tree
\* cut below depth D, so a directory at depth D is kept without children.
C2_DepthInvariant ==
  TreeOk =>
    LET nodes == AllNodes(Tree.root)
    IN /\ Tree.root.depth = 0
       /\ \A n \in nodes :
            \A k \in 1..Len(ChildrenOf(n)) : ChildrenOf(n)[k].depth = n.depth + 1
       /\ config.max_depth > 0 =>
            /\ \A n \in nodes :
                 /\ n.depth <= config.max_depth
                 /\ n.depth = config.max_depth => n.children = None
            /\ {n.path : n \in nodes}
                 = {n.path : n \in {m \in AllNodes(UnlimitedRoot) :
                                      m.depth <= config.max_depth}}

\* C2 witness: under a limit D a directory that has entries sits at depth D
\* in the tree, without children.
C2_Witness ==
  /\ TreeOk
  /\ config.max_depth > 0
  /\ \E n \in AllNodes(Tree.root) :
       /\ n.node_type = Directory /\ n.depth = config.max_depth
       /\ n.children = None
       /\ \E m \in AllNodes(UnlimitedRoot) : m.path = n.path /\ IsSome(m.children)

\* C3: with max_depth = D > 0 walk_streaming emits a record for an entry if
\* and only if the entry is a non-root node of the tree walk_directory
\* returns for the same D.
C3_StreamDepthLimit ==
  (TreeOk /\ StreamOk /\ config.max_depth > 0) =>
    {Records[k].path : k \in 1..Len(Records)}
      = {Unwrap(n.path) : n \in NonRootNodes(Tree)}

\* C4: total_files + total_directories + total_symlinks of collect_stats on
\* the materialized tree equals the number of callback invocations of
\* walk_streaming for the same configuration.
C4_StatsCountMatchesCallbacks ==
  (IsSome(stats) /\ StreamOk) =>
    Unwrap(stats).total_files + Unwrap(stats).total_directories
      + Unwrap(stats).total_symlinks = Len(Records)

\* C5: should_exclude(path) is true if and only if (a) exclude_hidden is set
\* and the base name starts with '.', or (b) some exclude pattern matches the
\* full path or the base name, or (c) an include pattern is set and matches
\* neither the full path nor the base name.  A path without a file name has
\* no base name for a pattern to match or a '.' to start with.
C5_ShouldExcludeRule ==
  IsSome(probe) =>
    LET path == Unwrap(probe).path
        filter == config.filter
        hasBase == path /= <<>> /\ path[Len(path)] /= DotDot
        base == path[Len(path)]
        matchesEither(pattern) ==
          Matches(pattern, PathText(path)) \/ (hasBase /\ Matches(pattern, base))
        a == filter.exclude_hidden /\ hasBase /\ Head(base) = "."
        b == \E i \in 1..Len(filter.exclude_patterns) :
               matchesEither(filter.exclude_patterns[i])
        c == /\ filter.include_pattern /= None
             /\ ~matchesEither(filter.include_pattern[1])
    IN Unwrap(probe).excluded = (a \/ b \/ c)

\* C6: when show_hidden is false the tree of walk_directory has no node below
\* the root whose name begins with '.'.
C6_ShowHiddenFalseHidesDotNames ==
  (TreeOk /\ ~config.show_hidden) =>
    \A n \in NonRootNodes(Tree) : Head(n.name) /= "."

\* the sibling lists of a tree: the children sequence of every node that has
\* children
SiblingLists(tree) ==
  {Unwrap(n.children) : n \in {m \in AllNodes(tree.root) : IsSome(m.children)}}

\* C7: with reverse = false every Directory node of a sibling list comes
\* before every File and Symlink node of the list, for each sort field.
C7_DirectoriesFirst ==
  (TreeOk /\ ~config.reverse) =>
    \A l \in SiblingLists(Tree) :
      \A i, j \in 1..Len(l) :
        (l[i].node_type = Directory /\ l[j].node_type /= Directory) => i < j

RECURSIVE EntryAt(_)
\* the entry a path below the root names (0 for the root's own path)
EntryAt(p) ==
  IF Len(p) = 1 THEN 0
  ELSE LET d == Unwrap(Follow(EntryAt(SubSeq(p, 1, Len(p) - 1)), Len(fs)))
       IN CHOOSE i \in 1..Len(fs) : fs[i].parent = d /\ fs[i].name = p[Len(p)]

\* the position in the enumeration of its directory of the entry a node
\* stands for
EnumIndex(n) == EntryAt(Unwrap(n.path))

\* C7 witness: a directory enumerated after a file is placed before it, also
\* by Size when it is the smaller of the two.
C7_Witness ==
  /\ TreeOk /\ ~config.reverse /\ config.sort_by = Size
  /\ \E l \in SiblingLists(Tree) :
       \E i, j \in 1..Len(l) :
         /\ i < j
         /\ l[i].node_type = Directory /\ l[j].node_type = File
         /\ l[i].size < l[j].size
         /\ EnumIndex(l[i]) > EnumIndex(l[j])

\* the sort key of Type: the text after the last '.' of a file or symlink
\* name, empty for a directory and for a name without '.'
ExtKey(n) ==
  IF n.node_type = Directory \/ ~ContainsDot(n.name) THEN <<>>
  ELSE RSplitDotFirst(n.name)

\* C8: with reverse = false, within the directories and within the files and
\* symlinks of a sibling list the order is: Name, ascending by name; Size,
\* descending by size with equal sizes in enumeration order; Type, ascending
\* by extension and then by name.
C8_OrderWithinKind ==
  (TreeOk /\ ~config.reverse) =>
    \A l \in SiblingLists(Tree) :
      \A i, j \in 1..Len(l) :
        (i < j /\ (l[i].node_type = Directory) = (l[j].node_type = Directory)) =>
          CASE config.sort_by = Name -> StrCmp(l[i].name, l[j].name) = Less
            [] config.sort_by = Size ->
                 \/ l[i].size > l[j].size
                 \/ (l[i].size = l[j].size /\ EnumIndex(l[i]) < EnumIndex(l[j]))
            [] config.sort_by = Type ->
                 \/ StrCmp(ExtKey(l[i]), ExtKey(l[j])) = Less
                 \/ /\ ExtKey(l[i]) = ExtKey(l[j])
                    /\ StrCmp(l[i].name, l[j].name) = Less

\* C8 witness: the sort moved two files: by Size the later and larger one
\* first, by Type the later one of the smaller extension first.
C8_Witness ==
  /\ TreeOk /\ ~config.reverse /\ config.sort_by /= Name
  /\ \E l \in SiblingLists(Tree) :
       \E i, j \in 1..Len(l) :
         /\ i < j
         /\ l[i].node_type = File /\ l[j].node_type = File
         /\ EnumIndex(l[i]) > EnumIndex(l[j])
         /\ config.sort_by = Type => StrCmp(l[i].name, l[j].name) = Greater

\* the tree walk_directory returns for the configuration with reverse = false
ForwardRoot == Unwrap(walk_recursive(<<>>, 0, [config EXCEPT !.reverse = FALSE]))

\* C9: the children sequence of every directory under reverse = true is the
\* reversal of its children sequence under reverse = false.
C9_ReverseReversesSiblings ==
  (TreeOk /\ config.reverse) =>
    LET forward == AllNodes(ForwardRoot)
        reversed == AllNodes(Tree.root)
        names(n) == [k \in 1..Len(ChildrenOf(n)) |-> ChildrenOf(n)[k].name]
    IN /\ {n.path : n \in reversed} = {n.path : n \in forward}
       /\ \A n \in forward :
            \A m \in reversed :
              m.path = n.path => names(m) = Reverse(names(n))

\* C9 witness: under reverse = true a file stands before a directory and two
\* entries of equal size stand against their enumeration order.
C9_Witness ==
  /\ TreeOk /\ config.reverse /\ config.sort_by = Size
  /\ \E l \in SiblingLists(Tree) :
       \/ \E i, j \in 1..Len(l) :
            i < j /\ l[i].node_type /= Directory /\ l[j].node_type = Directory
       \/ \E i, j \in 1..Len(l) :
            /\ i < j /\ l[i].size = l[j].size
            /\ l[i].node_type = File /\ l[j].node_type = File
            /\ EnumIndex(l[i]) > EnumIndex(l[j])

\* the names of the records of the entries of the directory of path p
RecordNamesUnder(records, p) ==
  LET r == SelectSeq(records,
             LAMBDA x : SubSeq(x.path, 1, Len(x.path) - 1) = p)
  IN [k \in 1..Len(r) |-> r[k].name]

\* the records walk_streaming emits for the configuration with reverse = false
ForwardRecords ==
  walk_recursive_streaming(<<>>, 0, TRUE, [config EXCEPT !.reverse = FALSE])

\* C10: with reverse = true walk_streaming emits the records of the entries
\* of each directory in the reverse of the order it emits them with
\* reverse = false.
C10_StreamHonoursReverse ==
  (StreamOk /\ config.reverse) =>
    \A k \in 1..Len(ForwardRecords) :
      LET p == SubSeq(ForwardRecords[k].path, 1, Len(ForwardRecords[k].path) - 1)
      IN RecordNamesUnder(Records, p) = Reverse(RecordNamesUnder(ForwardRecords, p))

\* C11: every Directory node of the tree of walk_directory, the root
\* included, has size 0, whatever length the metadata of the directory
\* reports.
C11_DirectorySizeZero ==
  TreeOk => \A n \in AllNodes(Tree.root) : is_directory(n) => n.size = 0

RECURSIVE TrailAt(_)
\* the entries a path below the root runs through (none for the root's path)
TrailAt(p) ==
  IF Len(p) = 1 THEN <<>>
  ELSE LET t == TrailAt(SubSeq(p, 1, Len(p) - 1))
           d == Unwrap(Follow(EntryOf(t), Len(fs)))
       IN t \o <<CHOOSE i \in 1..Len(fs) : fs[i].parent = d /\ fs[i].name = p[Len(p)]>>

\* the entries of the directory of node n that the enumeration yields and
\* the filter keeps
Survivors(n) ==
  LET t == TrailAt(Unwrap(n.path))
      ids == ReadDir(t, config.follow_symlinks)
  IN {i \in 1..Len(fs) :
        /\ \E k \in 1..Len(ids) : ids[k] = i
        /\ ~should_exclude(config.filter, PathOf(t \o <<i>>))}

\* C12: a node has children exactly when it is a directory above the depth
\* limit with an entry that survived the filter; children is never present
\* and empty, and File and Symlink nodes have none.
C12_ChildrenPresence ==
  TreeOk =>
    \A n \in AllNodes(Tree.root) :
      /\ IsSome(n.children) <=>
           (is_directory(n) /\ ~AtDepthLimit(n.depth, config) /\ Survivors(n) /= {})
      /\ n.children /= Some(<<>>)
      /\ ~is_directory(n) => n.children = None

\* C12 witness: next to a directory with children, a directory that was read
\* and has entries on disk, all of them filtered out, has no children field.
C12_Witness ==
  /\ TreeOk
  /\ \E n, m \in AllNodes(Tree.root) :
       /\ IsSome(m.children)
       /\ is_directory(n) /\ ~AtDepthLimit(n.depth, config)
       /\ n.children = None
       /\ ReadDir(TrailAt(Unwrap(n.path)), config.follow_symlinks) /= <<>>

\* C13: walk_directory and walk_streaming return PathNotFound when the root
\* does not exist and NotADirectory when it is not a directory; no tree is
\* returned and the callback is never invoked.
C13_RootErrors ==
  /\ IsSome(walked) =>
       /\ root.kind = "missing" =>
            (Unwrap(walked).tag = "PathNotFound" /\ Unwrap(walked).tree = None)
       /\ root.kind = "file" =>
            (Unwrap(walked).tag = "NotADirectory" /\ Unwrap(walked).tree = None)
  /\ IsSome(streamed) =>
       /\ root.kind = "missing" =>
            (Unwrap(streamed).tag = "PathNotFound" /\ Records = <<>>)
       /\ root.kind = "file" =>
            (Unwrap(streamed).tag = "NotADirectory" /\ Records = <<>>)

\* C13 witness: both walks were made on a root that is a file.
C13_Witness ==
  /\ root.kind = "file"
  /\ IsSome(walked) /\ Unwrap(walked).tag = "NotADirectory"
  /\ IsSome(streamed) /\ Unwrap(streamed).tag = "NotADirectory"

\* C14: when the root is a directory whose entries cannot be read, the walk
\* aborts with an error: neither walk_directory nor walk_streaming returns Ok.
C14_UnreadableRootAborts ==
  root.kind = "locked" =>
    /\ IsSome(walked) => Unwrap(walked).tag /= "Ok"
    /\ IsSome(streamed) => Unwrap(streamed).tag /= "Ok"

\* entry i of directory d fails: the walk follows links and i is a link that
\* cannot be followed or leads back to d
Fails(i, d) ==
  /\ config.follow_symlinks
  /\ fs[i].kind = "symlink"
  /\ (~IsSome(Follow(i, Len(fs))) \/ Unwrap(Follow(i, Len(fs))) = d)

\* the entries expected below directory node n: none when the directory is
\* at the depth limit or cannot be read, else its entries that do not fail
\* and pass the filter
ExpectedChildren(n) ==
  LET t == TrailAt(Unwrap(n.path))
      d == Unwrap(Follow(EntryOf(t), Len(fs)))
  IN IF KindOf(d) = "locked" \/ AtDepthLimit(n.depth, config) THEN {}
     ELSE {PathOf(t \o <<i>>) :
             i \in {j \in 1..Len(fs) :
                      /\ fs[j].parent = d
                      /\ ~Fails(j, d)
                      /\ ~should_exclude(config.filter, PathOf(t \o <<j>>))}}

HasInvalidPattern(c) ==
  \/ \E k \in 1..Len(c.exclude) : ~IsSome(PatternNew(c.exclude[k]))
  \/ IsSome(c.include_only) /\ ~IsSome(PatternNew(Unwrap(c.include_only)))

\* C16: an invalid exclude or include-only pattern is reported as an error
\* when the filter is built: no walk is run, and none returns Ok, with the
\* invalid pattern dropped from the filter.
C16_InvalidPatternReported ==
  (IsSome(cli) /\ HasInvalidPattern(Unwrap(cli))) =>
    /\ IsSome(walked) => Unwrap(walked).tag /= "Ok"
    /\ IsSome(streamed) => Unwrap(streamed).tag /= "Ok"

\* the path p of an entry runs through a symbolic link: an entry above its
\* last one is a link
RunsThroughLink(p) ==
  LET t == TrailAt(p) IN \E k \in 1..(Len(t) - 1) : fs[t[k]].kind = "symlink"

\* the entry of path p is a symbolic link
IsLinkPath(p) == Len(p) > 1 /\ fs[EntryOf(TrailAt(p))].kind = "symlink"

\* C17: an entry that is a symbolic link is a leaf of both walks: its node has
\* no children and no node or record lies on a path through it, whether
\* links are followed or not.
C17_SymlinksAreLeaves ==
  /\ TreeOk =>
       \A n \in NonRootNodes(Tree) :
         /\ ~RunsThroughLink(Unwrap(n.path))
         /\ IsLinkPath(Unwrap(n.path)) => n.children = None
  /\ StreamOk =>
       \A k \in 1..Len(Records) :
         /\ ~RunsThroughLink(Records[k].path)
         /\ IsLinkPath(Records[k].path) => ~Records[k].has_children

\* the broken links in the root that the filter keeps
BrokenRootLinks ==
  {i \in 1..Len(fs) :
     /\ fs[i].parent = 0 /\ fs[i].kind = "symlink" /\ fs[i].target = Dangling
     /\ ~should_exclude(config.filter, PathOf(<<i>>))}

\* C18: a broken link the filter keeps is a Symlink node carrying the link's
\* own metadata, and is counted in total_symlinks, whether links are followed
\* or not.
C18_BrokenLinkKept ==
  TreeOk =>
    /\ \A i \in BrokenRootLinks :
         \E k \in 1..Len(ChildrenOf(Tree.root)) :
           /\ ChildrenOf(Tree.root)[k].name = fs[i].name
           /\ ChildrenOf(Tree.root)[k].node_type = Symlink
           /\ ChildrenOf(Tree.root)[k].size = fs[i].size
    /\ IsSome(stats) => Unwrap(stats).total_symlinks >= Cardinality(BrokenRootLinks)

\* the File nodes of the walked tree
FileNodes == {n \in AllNodes(Tree.root) : n.node_type = File}

\* the key the claim gives a name: '.' and the text after the last dot for a
\* name with a dot, the sentinel for a name without
ClaimedKey(name) ==
  IF ContainsDot(name)
  THEN <<".">> \o SubSeq(name, LastDot(name) + 1, Len(name))
  ELSE NoExtension

\* the key of a name when a name that ends in a dot goes to the sentinel too
AmendedKey(name) ==
  IF ContainsDot(name) /\ name[Len(name)] /= "."
  THEN <<".">> \o SubSeq(name, LastDot(name) + 1, Len(name))
  ELSE NoExtension

\* C19 as stated: every File node is counted in the bucket of '.' and the text
\* after the last dot of its name when the name has a dot, and in the
\* sentinel bucket exactly when the name has no dot.
C19_BucketKeyAsStated ==
  IsSome(stats) =>
    LET buckets == Unwrap(stats).files_by_extension
    IN /\ DOMAIN buckets = {ClaimedKey(f.name) : f \in FileNodes}
       /\ \A key \in DOMAIN buckets :
            buckets[key].count = Cardinality({f \in FileNodes : ClaimedKey(f.name) = key})

\* C19 amended: every File node is counted in exactly one bucket: that of '.'
\* and the text after the last dot of its name when the name has a dot and
\* does not end in one, the sentinel bucket when the name has no dot or ends
\* in a dot.
C19_BucketKey ==
  IsSome(stats) =>
    LET buckets == Unwrap(stats).files_by_extension
    IN /\ DOMAIN buckets = {AmendedKey(f.name) : f \in FileNodes}
       /\ \A key \in DOMAIN buckets :
            /\ buckets[key].extension = key
            /\ buckets[key].count
                 = Cardinality({f \in FileNodes : AmendedKey(f.name) = key})

\* C19 witness: the statistics of a directory that holds a file whose name
\* ends in a dot, counted under the sentinel, and a file of two dots, counted
\* under the text after the last one.
C19_Witness ==
  /\ IsSome(stats)
  /\ \E f \in FileNodes : f.name = <<"a", ".">>
  /\ \E f \in FileNodes : f.name = <<"b", ".", "x", ".", "y">>
  /\ DOMAIN Unwrap(stats).files_by_extension = {NoExtension, <<".", "y">>}

RECURSIVE SumOver(_, _)
\* the sum of f[x] over the elements x of the finite set S
SumOver(f, S) ==
  IF S = {} THEN 0
  ELSE LET x == CHOOSE y \in S : TRUE IN f[x] + SumOver(f, S \ {x})

C21_LargestFilesLength ==
  (IsSome(cli) /\ IsSome(stats)) =>
    LET n == top_files_count(Unwrap(cli))
        total == Unwrap(stats).total_files
    IN Len(Unwrap(stats).largest_files) = IF n < total THEN n ELSE total

RECURSIVE FilesInOrder(_)
\* the File nodes of the subtree of node in depth-first order, siblings in
\* the order of the tree
FilesInOrder(node) ==
  (IF node.node_type = File THEN <<node>> ELSE <<>>)
    \o Concat([k \in 1..Len(ChildrenOf(node)) |-> FilesInOrder(ChildrenOf(node)[k])])

\* list is the selection of the limit largest of files, a sequence in
\* discovery order: pick[k] is the place in files of the k-th entry
IsSelection(list, limit, files) ==
  /\ Len(list) = (IF limit < Len(files) THEN limit ELSE Len(files))
  /\ \E pick \in [1..Len(list) -> 1..Len(files)] :
       /\ \A k \in 1..Len(list) :
            /\ list[k].name = files[pick[k]].name
            /\ Some(list[k].path) = files[pick[k]].path
            /\ list[k].size = files[pick[k]].size
       /\ \A i, j \in 1..Len(list) :
            i < j => \/ list[i].size > list[j].size
                     \/ (list[i].size = list[j].size /\ pick[i] < pick[j])
       /\ \A m \in 1..Len(files) :
            (\A k \in 1..Len(list) : pick[k] /= m) =>
              \A k \in 1..Len(list) :
                \/ files[m].size < list[k].size
                \/ (files[m].size = list[k].size /\ pick[k] < m)

\* C22: largest_files lists File nodes of the tree only, in non-increasing
\* order of size, omits no file larger than one it lists, and keeps files of
\* equal size in depth-first discovery order, those dropped by the
\* truncation being the last discovered.
C22_LargestFilesSelection ==
  /\ (TreeOk /\ IsSome(stats)) =>
       IsSelection(Unwrap(stats).largest_files, DEFAULT_MAX_LARGEST,
                   FilesInOrder(Tree.root))
  /\ (TreeOk /\ IsSome(largest)) =>
       IsSelection(Unwrap(largest).files, Unwrap(largest).limit, FilesInOrder(Tree.root))

\* C22 witness: of two files the one discovered second is the larger, and
\* find_largest_files with the limit 1 lists it alone.
C22_Witness ==
  /\ TreeOk
  /\ IsSome(largest)
  /\ Unwrap(largest).limit = 1
  /\ Len(FilesInOrder(Tree.root)) = 2
  /\ FilesInOrder(Tree.root)[1].size < FilesInOrder(Tree.root)[2].size
  /\ Len(Unwrap(largest).files) = 1
  /\ Some(Unwrap(largest).files[1].path) = FilesInOrder(Tree.root)[2].path

\* C23: the max_depth field of the tree is the greatest depth of a node of
\* the tree, not the configured limit.
C23_MaxDepthObserved ==
  TreeOk =>
    /\ \A n \in AllNodes(Tree.root) : n.depth <= Tree.max_depth
    /\ \E n \in AllNodes(Tree.root) : n.depth = Tree.max_depth
    /\ Tree.root.children = None => Tree.max_depth = 0

\* C23 witness: under the limit 1 a directory of the root that holds an entry
\* is in the tree without children and max_depth is 1.
C23_Witness ==
  /\ TreeOk
  /\ config.max_depth = 1
  /\ Tree.max_depth = 1
  /\ \E n \in AllNodes(Tree.root) :
       /\ n.depth = 1 /\ is_directory(n) /\ n.children = None
       /\ \E i \in 1..Len(fs) :
            /\ fs[i].parent = EntryOf(TrailAt(Unwrap(n.path)))
            /\ ~should_exclude(config.filter, PathOf(TrailAt(Unwrap(n.path)) \o <<i>>))

\* C24: with max_depth = 0 and either value of follow_symlinks, a walk that
\* was started returns, on every snapshot, also one in which a link points
\* to a directory above it: the paths still to visit run out.
C24_WalksTerminate ==
  IsSome(walk) ~> (IsSome(walk) /\ Unwrap(walk).todo = <<>>)

\* a walk has returned after it went through one link to a directory above
\* it twice
C24_Witness ==
  /\ IsSome(walk)
  /\ Unwrap(walk).todo = <<>>
  /\ \E t \in Unwrap(walk).visited :
       \E j, k \in 1..Len(t) :
         /\ j < k
         /\ t[j] = t[k]
         /\ fs[t[j]].kind = "symlink"

\* path p lies beneath path d
Beneath(p, d) == Len(p) > Len(d) /\ SubSeq(p, 1, Len(d)) = d

\* C25: walk_streaming emits in depth-first pre-order: the records of the
\* entries beneath an emitted entry come after its record, without a gap and
\* so before the record of its next sibling; the root is never emitted.
C25_StreamPreOrder ==
  StreamOk =>
    /\ \A i, j \in 1..Len(Records) :
         Beneath(Records[j].path, Records[i].path) =>
           /\ i < j
           /\ \A k \in (i + 1)..j : Beneath(Records[k].path, Records[i].path)
    /\ \A i \in 1..Len(Records) : Records[i].path /= PathOf(<<>>)

\* a directory's record is followed by the record of an entry beneath it and
\* then by the record of its next sibling
C25_Witness ==
  /\ StreamOk
  /\ \E i \in 1..(Len(Records) - 2) :
       /\ Records[i].node_type = Directory
       /\ Beneath(Records[i + 1].path, Records[i].path)
       /\ ~Beneath(Records[i + 2].path, Records[i].path)

\* the records emitted for the entries of the directory of path d, in order
RecordsIn(d) ==
  SelectSeq(Records, LAMBDA x : SubSeq(x.path, 1, Len(x.path) - 1) = d)

\* C26: among the records emitted for the entries of one directory the last
\* one, and no other, has is_last = true, also when entries of the directory
\* were skipped because their metadata could not be read.
C26_IsLastOncePerDirectory ==
  StreamOk =>
    \A r \in {Records[i] : i \in 1..Len(Records)} :
      LET recs == RecordsIn(SubSeq(r.path, 1, Len(r.path) - 1))
      IN \A k \in 1..Len(recs) : recs[k].is_last <=> (k = Len(recs))

\* C27: a Directory record has has_children = true exactly when the next
\* record is that of an entry of the directory, under every max_depth; File
\* and Symlink records have has_children = false.
C27_HasChildrenMeansRecords ==
  StreamOk =>
    \A i \in 1..Len(Records) :
      IF Records[i].node_type = Directory
      THEN Records[i].has_children <=>
             /\ i < Len(Records)
             /\ SubSeq(Records[i + 1].path, 1, Len(Records[i + 1].path) - 1)
                  = Records[i].path
      ELSE ~Records[i].has_children

\* path p below the root, or a directory on it below the root, is excluded
\* by the filter of the walk
ExcludedOnTheWay(p) ==
  \E k \in 2..Len(p) : should_exclude(config.filter, SubSeq(p, 1, k))

\* the paths of the entries of the root that pass the filter
RootSurvivors ==
  {PathOf(<<i>>) : i \in {j \in 1..Len(fs) :
                            /\ fs[j].parent = 0
                            /\ ~should_exclude(config.filter, PathOf(<<j>>))}}

\* C28: no node of the tree and no record of the stream is an entry that the
\* filter excludes or lies beneath such an entry, whatever the filter says
\* about the entry itself; the root is walked whatever the filter says
\* about it: the entries of the root that pass the filter all appear.
C28_FilterBeforeDescent ==
  /\ IsSome(walked) =>
       /\ TreeOk
       /\ Tree.root.path = Some(PathOf(<<>>))
       /\ \A n \in NonRootNodes(Tree) : ~ExcludedOnTheWay(Unwrap(n.path))
       /\ \A p \in RootSurvivors : \E n \in NonRootNodes(Tree) : n.path = Some(p)
  /\ IsSome(streamed) =>
       /\ StreamOk
       /\ \A i \in 1..Len(Records) : ~ExcludedOnTheWay(Records[i].path)
       /\ \A p \in RootSurvivors : \E i \in 1..Len(Records) : Records[i].path = p

\* the filter excludes the path of the root and a directory whose entry
\* passes the filter; both walks return and hold nothing of that directory
C28_Witness ==
  /\ TreeOk
  /\ StreamOk
  /\ should_exclude(config.filter, PathOf(<<>>))
  /\ \E i, j \in 1..Len(fs) :
       /\ fs[i].kind = "dir"
       /\ fs[j].parent = i
       /\ should_exclude(config.filter, PathOf(<<i>>))
       /\ ~should_exclude(config.filter, PathOf(<<i, j>>))

\* the nodes of the walked tree of one kind
NodesOfKind(kind) == {n \in AllNodes(Tree.root) : n.node_type = kind}

\* C29: collect_stats counts every node of the tree, the root included, once
\* under its kind: the counters are the numbers of File, Directory and
\* Symlink nodes and sum to total_node_count, total_directories is at least
\* 1, total_size is the sum of the sizes of the File nodes, and total_files
\* and total_directories are the lengths of get_all_files and
\* get_all_directories.
C29_CountersPartitionNodes ==
  (TreeOk /\ IsSome(stats)) =>
    LET st == Unwrap(stats) IN
    /\ st.total_files = Cardinality(NodesOfKind(File))
    /\ st.total_directories = Cardinality(NodesOfKind(Directory))
    /\ st.total_symlinks = Cardinality(NodesOfKind(Symlink))
    /\ st.total_files + st.total_directories + st.total_symlinks = total_node_count(Tree)
    /\ total_node_count(Tree) = Cardinality(AllNodes(Tree.root))
    /\ st.total_directories >= 1
    /\ st.total_size = SumOver([n \in NodesOfKind(File) |-> n.size], NodesOfKind(File))
    /\ st.total_files = Len(get_all_files(Tree))
    /\ st.total_directories = Len(get_all_directories(Tree))

\* statistics of a tree whose root holds a file of non-zero size and a
\* symbolic link
C29_Witness ==
  /\ TreeOk
  /\ IsSome(stats)
  /\ Unwrap(stats).total_files = 1
  /\ Unwrap(stats).total_symlinks = 1
  /\ Unwrap(stats).total_directories = 1
  /\ Unwrap(stats).total_size > 0

\* the place of name x in the sequence of names s, 0 when it is not there
PlaceOf(x, s) ==
  IF \E k \in 1..Len(s) : s[k] = x THEN CHOOSE k \in 1..Len(s) : s[k] = x ELSE 0

\* C30: with reverse = false, under each sort field, the entries of a
\* directory that both walks return come in the same order in the stream as
\* among the children of the directory's node in the tree.
C30_SameSiblingOrder ==
  (TreeOk /\ StreamOk /\ ~config.reverse) =>
    \A n \in AllNodes(Tree.root) :
      LET inTree == [k \in 1..Len(ChildrenOf(n)) |-> ChildrenOf(n)[k].name]
          inStream == RecordNamesUnder(Records, Unwrap(n.path))
      IN \A x, y \in {inTree[k] : k \in 1..Len(inTree)} :
           (PlaceOf(x, inStream) > 0 /\ PlaceOf(y, inStream) > 0) =>
             (PlaceOf(x, inTree) < PlaceOf(y, inTree)
                <=> PlaceOf(x, inStream) < PlaceOf(y, inStream))

====
